---- MODULE Spec2Model ----
(***************************************************************************)
(* Model of src/main.py: the circuit builder                               *)
(* create_string_vibration_circuit and the result analyzer analyze_results.*)
(* The circuit is the ordered list of the operations the builder appends;  *)
(* an outcome mapping is the ordered list of the (bitstring, count) items  *)
(* a Python dict presents.                                                 *)
(***************************************************************************)
EXTENDS Integers, Sequences, FiniteSets

\* ------------------------------------------------------------------ bounds

MaxQubits == 4

MaxDims == 3

MaxEntries == 2

MaxCount == 3

\* The bitstrings an outcome mapping may hold and the counts of the worked
\* example {"00": 700, "11": 300}.
Keys == {"00", "01", "10", "11"}

ExampleCounts == {300, 700}

Counts == (0..MaxCount) \cup ExampleCounts

VARIABLES
    num_qubits,      \* argument of create_string_vibration_circuit
    num_dimensions,  \* argument of create_string_vibration_circuit
    pc,              \* position in create_string_vibration_circuit
    i,               \* loop variable i
    dim,             \* loop variable dim
    dim1,            \* loop variable dim1
    dim2,            \* loop variable dim2
    circuit,         \* the operations appended to the circuit so far
    returned,        \* TRUE once the circuit has been returned
    raised,          \* the exception that ended the call, or "none"
    counts,          \* argument of analyze_results: <<bitstring, count>> items
    apc,             \* position in analyze_results
    total_shots,     \* local total_shots
    analysis,        \* <<>> until analyze_results returns, then <<the dict>>
    aerror           \* the exception that ended analyze_results, or "none"

buildVars == <<num_qubits, num_dimensions, pc, i, dim, dim1, dim2, circuit,
               returned, raised>>

analyzeVars == <<counts, apc, total_shots, analysis, aerror>>

vars == <<buildVars, analyzeVars>>

\* ------------------------------------------------------- circuit builder

\* Size of both registers: num_qubits * num_dimensions.
QubitCount(nq, nd) == nq * nd

\* The linear qubit index of a site in a dimension: i + (dim * num_qubits).
IndexOffByOne(d, site, nq) == (site + 1) + (d * nq)

IndexShortStride(d, site, nq) == site + (d * (nq - 1))

Index(d, site, nq) == site + (d * nq)

\* The gates, as the circuit records them.
H(q) == [gate |-> "h", qubits |-> <<q>>, clbits |-> <<>>, param |-> "none"]

CX(control, target) ==
    [gate |-> "cx", qubits |-> <<control, target>>, clbits |-> <<>>, param |-> "none"]

RZ(q) == [gate |-> "rz", qubits |-> <<q>>, clbits |-> <<>>, param |-> "pi/4"]

CZ(control, target) ==
    [gate |-> "cz", qubits |-> <<control, target>>, clbits |-> <<>>, param |-> "none"]

Measure(q, c) == [gate |-> "measure", qubits |-> <<q>>, clbits |-> <<c>>, param |-> "none"]

\* circuit.measure(qr, cr): one measurement per qubit of qr, in register
\* order, qubit k into the classical bit k of cr.
MeasureAllReversed(n) == [k \in 1..n |-> Measure(k - 1, n - k)]

MeasureAll(n) == [k \in 1..n |-> Measure(k - 1, k - 1)]

\* range(num_qubits - 1): the exclusive end of the coupling loop over sites.
CouplingEndInclusive(nq) == nq

CouplingEnd(nq) == nq - 1

\* range(dim1 + 1, num_dimensions): the first dim2 of the inner loop.
Dim2StartSame(d1) == d1

Dim2Start(d1) == d1 + 1

\* The order of the statements of the function body.
NextStageSwapped(stage) ==
    CASE stage = "create" -> "h"
      [] stage = "h" -> "rz"
      [] stage = "rz" -> "cx"
      [] stage = "cx" -> "cz_if"
      [] stage = "cz_if" -> "measure"
      [] stage = "cz" -> "measure"
      [] stage = "measure" -> "return"
      [] OTHER -> "done"

NextStage(stage) ==
    CASE stage = "create" -> "h"
      [] stage = "h" -> "cx"
      [] stage = "cx" -> "rz"
      [] stage = "rz" -> "cz_if"
      [] stage = "cz_if" -> "measure"
      [] stage = "cz" -> "measure"
      [] stage = "measure" -> "return"
      [] OTHER -> "done"

\* Leave the current statement for the next one; a loop entered there
\* starts its variables afresh.
Goto(stage) ==
    /\ pc' = stage
    /\ i' = 0
    /\ dim' = 0
    /\ dim1' = 0
    /\ dim2' = Dim2Start(0)

Append1(op) == circuit' = Append(circuit, op)

\* Lines 17-19. A register of size zero is refused by the library releases
\* that require a positive size (CreateRegistersRefused) and accepted by the
\* later ones (CreateRegisters); the function itself checks nothing.
CreateRegisters ==
    /\ pc = "create"
    /\ Goto(NextStage("create"))
    /\ UNCHANGED <<num_qubits, num_dimensions, circuit, returned, raised>>
    /\ UNCHANGED analyzeVars

CreateRegistersRefused ==
    /\ pc = "create"
    /\ QubitCount(num_qubits, num_dimensions) = 0
    /\ pc' = "raised"
    /\ raised' = "CircuitError"
    /\ UNCHANGED <<num_qubits, num_dimensions, i, dim, dim1, dim2, circuit, returned>>
    /\ UNCHANGED analyzeVars

\* Lines 22-23.
HLoop ==
    /\ pc = "h"
    /\ i < QubitCount(num_qubits, num_dimensions)
    /\ Append1(H(i))
    /\ i' = i + 1
    /\ UNCHANGED <<num_qubits, num_dimensions, pc, dim, dim1, dim2, returned, raised>>
    /\ UNCHANGED analyzeVars

HExit ==
    /\ pc = "h"
    /\ i >= QubitCount(num_qubits, num_dimensions)
    /\ Goto(NextStage("h"))
    /\ UNCHANGED <<num_qubits, num_dimensions, circuit, returned, raised>>
    /\ UNCHANGED analyzeVars

\* Lines 26-30.
CxLoop ==
    /\ pc = "cx"
    /\ dim < num_dimensions
    /\ i < CouplingEnd(num_qubits)
    /\ Append1(CX(Index(dim, i, num_qubits), Index(dim, i + 1, num_qubits)))
    /\ i' = i + 1
    /\ UNCHANGED <<num_qubits, num_dimensions, pc, dim, dim1, dim2, returned, raised>>
    /\ UNCHANGED analyzeVars

CxNextDim ==
    /\ pc = "cx"
    /\ dim < num_dimensions
    /\ i >= CouplingEnd(num_qubits)
    /\ dim' = dim + 1
    /\ i' = 0
    /\ UNCHANGED <<num_qubits, num_dimensions, pc, dim1, dim2, circuit, returned, raised>>
    /\ UNCHANGED analyzeVars

CxExit ==
    /\ pc = "cx"
    /\ dim >= num_dimensions
    /\ Goto(NextStage("cx"))
    /\ UNCHANGED <<num_qubits, num_dimensions, circuit, returned, raised>>
    /\ UNCHANGED analyzeVars

\* Lines 33-34.
RzLoop ==
    /\ pc = "rz"
    /\ i < QubitCount(num_qubits, num_dimensions)
    /\ Append1(RZ(i))
    /\ i' = i + 1
    /\ UNCHANGED <<num_qubits, num_dimensions, pc, dim, dim1, dim2, returned, raised>>
    /\ UNCHANGED analyzeVars

RzExit ==
    /\ pc = "rz"
    /\ i >= QubitCount(num_qubits, num_dimensions)
    /\ Goto(NextStage("rz"))
    /\ UNCHANGED <<num_qubits, num_dimensions, circuit, returned, raised>>
    /\ UNCHANGED analyzeVars

\* Line 37.
InterferenceTaken ==
    /\ pc = "cz_if"
    /\ num_dimensions > 1
    /\ Goto("cz")
    /\ UNCHANGED <<num_qubits, num_dimensions, circuit, returned, raised>>
    /\ UNCHANGED analyzeVars

InterferenceSkipped ==
    /\ pc = "cz_if"
    /\ ~(num_dimensions > 1)
    /\ Goto(NextStage("cz_if"))
    /\ UNCHANGED <<num_qubits, num_dimensions, circuit, returned, raised>>
    /\ UNCHANGED analyzeVars

\* Lines 38-43.
CzLoop ==
    /\ pc = "cz"
    /\ i < num_qubits
    /\ dim1 < num_dimensions
    /\ dim2 < num_dimensions
    /\ Append1(CZ(Index(dim1, i, num_qubits), Index(dim2, i, num_qubits)))
    /\ dim2' = dim2 + 1
    /\ UNCHANGED <<num_qubits, num_dimensions, pc, i, dim, dim1, returned, raised>>
    /\ UNCHANGED analyzeVars

CzNextDim1 ==
    /\ pc = "cz"
    /\ i < num_qubits
    /\ dim1 < num_dimensions
    /\ dim2 >= num_dimensions
    /\ dim1' = dim1 + 1
    /\ dim2' = Dim2Start(dim1 + 1)
    /\ UNCHANGED <<num_qubits, num_dimensions, pc, i, dim, circuit, returned, raised>>
    /\ UNCHANGED analyzeVars

CzNextSite ==
    /\ pc = "cz"
    /\ i < num_qubits
    /\ dim1 >= num_dimensions
    /\ i' = i + 1
    /\ dim1' = 0
    /\ dim2' = Dim2Start(0)
    /\ UNCHANGED <<num_qubits, num_dimensions, pc, dim, circuit, returned, raised>>
    /\ UNCHANGED analyzeVars

CzExit ==
    /\ pc = "cz"
    /\ i >= num_qubits
    /\ Goto(NextStage("cz"))
    /\ UNCHANGED <<num_qubits, num_dimensions, circuit, returned, raised>>
    /\ UNCHANGED analyzeVars

\* Line 46.
MeasureStep ==
    /\ pc = "measure"
    /\ circuit' = circuit \o MeasureAll(QubitCount(num_qubits, num_dimensions))
    /\ pc' = NextStage("measure")
    /\ UNCHANGED <<num_qubits, num_dimensions, i, dim, dim1, dim2, returned, raised>>
    /\ UNCHANGED analyzeVars

\* Line 48.
Return ==
    /\ pc = "return"
    /\ pc' = NextStage("return")
    /\ returned' = TRUE
    /\ UNCHANGED <<num_qubits, num_dimensions, i, dim, dim1, dim2, circuit, raised>>
    /\ UNCHANGED analyzeVars

AnalyzeIdle ==
    /\ counts = <<>>
    /\ apc = "idle"
    /\ total_shots = 0
    /\ analysis = <<>>
    /\ aerror = "none"

Init ==
    /\ num_qubits \in 0..MaxQubits
    /\ num_dimensions \in 0..MaxDims
    /\ pc = "create"
    /\ i = 0
    /\ dim = 0
    /\ dim1 = 0
    /\ dim2 = 0
    /\ circuit = <<>>
    /\ returned = FALSE
    /\ raised = "none"
    /\ AnalyzeIdle

Next ==
    \/ CreateRegisters
    \/ CreateRegistersRefused
    \/ HLoop
    \/ HExit
    \/ CxLoop
    \/ CxNextDim
    \/ CxExit
    \/ RzLoop
    \/ RzExit
    \/ InterferenceTaken
    \/ InterferenceSkipped
    \/ CzLoop
    \/ CzNextDim1
    \/ CzNextSite
    \/ CzExit
    \/ MeasureStep
    \/ Return

Spec == Init /\ [][Next]_vars

\* ------------------------------------------------------ result analyzer

\* A dict of counts, as the ordered list of its items: keys are unique.
Mappings ==
    UNION {{m \in [1..n -> Keys \X Counts] :
                \A a \in 1..n : \A b \in 1..n : m[a][1] = m[b][1] => a = b} :
           n \in 0..MaxEntries}

\* sum(counts.values()): added left to right from 0.
RECURSIVE SumAcc(_, _, _)
SumAcc(items, k, acc) ==
    IF k > Len(items) THEN acc ELSE SumAcc(items, k + 1, acc + items[k][2])

SumValuesSkipFirst(items) == SumAcc(items, 2, 0)

SumValues(items) == SumAcc(items, 1, 0)

\* max(...) of an empty iterable raises ValueError.
MaxNeverRaises(items) == FALSE

MaxRaises(items) == Len(items) = 0

\* max(counts.items(), key=lambda x: x[1]): the items are visited in order
\* and the best one is replaced only by an item with a strictly larger count.
RECURSIVE MaxFrom(_, _, _)
MaxFrom(items, k, best) ==
    IF k > Len(items) THEN best
    ELSE MaxFrom(items, k + 1, IF items[k][2] > best[2] THEN items[k] ELSE best)

RECURSIVE LastMaxFrom(_, _, _)
LastMaxFrom(items, k, best) ==
    IF k > Len(items) THEN best
    ELSE LastMaxFrom(items, k + 1, IF items[k][2] >= best[2] THEN items[k] ELSE best)

MaxItemLast(items) == LastMaxFrom(items, 2, items[1])

MaxItem(items) == MaxFrom(items, 2, items[1])

\* max(counts.values()).
MaxValue(items) == MaxFrom(items, 2, items[1])[2]

\* a / b on integers: the quotient, kept exact as <<numerator, denominator>>.
TrueDiv(a, b) == <<a, b>>

\* Line 77.
AnalyzeSum ==
    /\ apc = "sum"
    /\ total_shots' = SumValues(counts)
    /\ apc' = "dict"
    /\ UNCHANGED <<counts, analysis, aerror>>
    /\ UNCHANGED buildVars

\* Lines 78-83: the entries are evaluated in order; line 81 raises on an
\* empty mapping, line 82 on a zero total.
AnalyzeDictMaxRaises ==
    /\ apc = "dict"
    /\ MaxRaises(counts)
    /\ aerror' = "ValueError"
    /\ apc' = "raised"
    /\ UNCHANGED <<counts, total_shots, analysis>>
    /\ UNCHANGED buildVars

AnalyzeDictDivisionRaises ==
    /\ apc = "dict"
    /\ ~MaxRaises(counts)
    /\ total_shots = 0
    /\ aerror' = "ZeroDivisionError"
    /\ apc' = "raised"
    /\ UNCHANGED <<counts, total_shots, analysis>>
    /\ UNCHANGED buildVars

AnalyzeDict ==
    /\ apc = "dict"
    /\ ~MaxRaises(counts)
    /\ total_shots # 0
    /\ analysis' = <<[total_measurements |-> total_shots,
                      unique_states |-> Len(counts),
                      most_common_state |-> MaxItem(counts)[1],
                      highest_probability |-> TrueDiv(MaxValue(counts), total_shots)]>>
    /\ apc' = "return"
    /\ UNCHANGED <<counts, total_shots, aerror>>
    /\ UNCHANGED buildVars

\* Line 84.
AnalyzeReturn ==
    /\ apc = "return"
    /\ apc' = "done"
    /\ UNCHANGED <<counts, total_shots, analysis, aerror>>
    /\ UNCHANGED buildVars

BuildIdle ==
    /\ num_qubits = 0
    /\ num_dimensions = 0
    /\ pc = "idle"
    /\ i = 0
    /\ dim = 0
    /\ dim1 = 0
    /\ dim2 = 0
    /\ circuit = <<>>
    /\ returned = FALSE
    /\ raised = "none"

InitAnalyze ==
    /\ counts \in Mappings
    /\ apc = "sum"
    /\ total_shots = 0
    /\ analysis = <<>>
    /\ aerror = "none"
    /\ BuildIdle

NextAnalyze ==
    \/ AnalyzeSum
    \/ AnalyzeDictMaxRaises
    \/ AnalyzeDictDivisionRaises
    \/ AnalyzeDict
    \/ AnalyzeReturn

SpecAnalyze == InitAnalyze /\ [][NextAnalyze]_vars

\* ------------------------------------------- properties of the builder

ValidArgs == num_qubits >= 1 /\ num_dimensions >= 1

Q == num_qubits * num_dimensions

StageOf(op) ==
    CASE op.gate = "h" -> 1
      [] op.gate = "cx" -> 2
      [] op.gate = "rz" -> 3
      [] op.gate = "cz" -> 4
      [] OTHER -> 5

OpsOf(g) == SelectSeq(circuit, LAMBDA op : op.gate = g)

GatesPresent == {circuit[k].gate : k \in 1..Len(circuit)}

\* Statements that follow the coupling loop, the interference loop and the
\* measurement.
AfterCoupling == pc \in {"rz", "cz_if", "cz", "measure", "return", "done"}

AfterInterference == pc \in {"measure", "return", "done"}

AfterMeasure == pc \in {"return", "done"}

\* C1: for valid arguments the operations appear in the order Hadamard,
\* controlled-NOT, phase rotation, controlled-phase, measurement: at every
\* point of the construction no operation of an earlier stage follows one of
\* a later stage, and the circuit returned holds each stage's operations.
C1_StageOrder ==
    ValidArgs =>
        /\ \A k \in 1..Len(circuit) : \A l \in 1..Len(circuit) :
               k < l => StageOf(circuit[k]) <= StageOf(circuit[l])
        /\ returned =>
               /\ Len(OpsOf("h")) = Q
               /\ Len(OpsOf("rz")) = Q
               /\ Len(OpsOf("measure")) = Q
               /\ Len(circuit) = Len(OpsOf("h")) + Len(OpsOf("cx")) + Len(OpsOf("rz"))
                                 + Len(OpsOf("cz")) + Len(OpsOf("measure"))

C1_Witness ==
    /\ returned
    /\ num_qubits >= 2
    /\ num_dimensions >= 2
    /\ GatesPresent = {"h", "cx", "rz", "cz", "measure"}

\* The dimension and the site a linear index decodes to.
DimOf(q) == q \div num_qubits

SiteOf(q) == q % num_qubits

\* C2: once the coupling stage is over, the controlled-NOT operations are
\* exactly num_dimensions * (num_qubits - 1) many, each goes from
\* index(d, i) to index(d, i + 1) for a site i in 0..num_qubits-2 of one
\* dimension d, they are emitted with (d, i) strictly ascending (dimension
\* first), and every such pair is emitted exactly once.
C2_Coupling ==
    (ValidArgs /\ AfterCoupling) =>
        LET cx == OpsOf("cx") IN
        /\ Len(cx) = num_dimensions * (num_qubits - 1)
        /\ \A k \in 1..Len(cx) :
               LET c == cx[k].qubits[1]
                   t == cx[k].qubits[2]
               IN  /\ Len(cx[k].qubits) = 2
                   /\ c \in 0..(Q - 1)
                   /\ t = c + 1
                   /\ DimOf(c) = DimOf(t)
                   /\ SiteOf(c) \in 0..(num_qubits - 2)
        /\ \A k \in 1..(Len(cx) - 1) : cx[k].qubits[1] < cx[k + 1].qubits[1]
        /\ \A d \in 0..(num_dimensions - 1) : \A s \in 0..(num_qubits - 2) :
               Cardinality({k \in 1..Len(cx) :
                   cx[k].qubits = <<s + d * num_qubits, (s + 1) + d * num_qubits>>}) = 1

C2_Witness ==
    /\ returned
    /\ num_qubits = 3
    /\ num_dimensions = 2
    /\ Len(OpsOf("cx")) = 4
    /\ OpsOf("cx")[3].qubits = <<3, 4>>

C2_WitnessSingleSite ==
    /\ returned
    /\ num_qubits = 1
    /\ num_dimensions = 2
    /\ OpsOf("cx") = <<>>

\* Lexicographic order on (site, d1, d2).
LexLess(a, b) ==
    \/ a[1] < b[1]
    \/ a[1] = b[1] /\ a[2] < b[2]
    \/ a[1] = b[1] /\ a[2] = b[2] /\ a[3] < b[3]

CzKey(op) == <<SiteOf(op.qubits[1]), DimOf(op.qubits[1]), DimOf(op.qubits[2])>>

\* C3: once the interference stage is over, the controlled-phase operations
\* are none when num_dimensions = 1 and num_qubits * C(num_dimensions, 2)
\* many otherwise; each goes from index(d1, i) to index(d2, i) with d1 < d2
\* and one site i, they are emitted with (i, d1, d2) strictly ascending in
\* lexicographic order (site outermost), and every such triple is emitted
\* exactly once.
C3_Interference ==
    (ValidArgs /\ AfterInterference) =>
        LET cz == OpsOf("cz") IN
        /\ num_dimensions = 1 => cz = <<>>
        /\ Len(cz) = num_qubits * ((num_dimensions * (num_dimensions - 1)) \div 2)
        /\ \A k \in 1..Len(cz) :
               LET c == cz[k].qubits[1]
                   t == cz[k].qubits[2]
               IN  /\ Len(cz[k].qubits) = 2
                   /\ c \in 0..(Q - 1)
                   /\ t \in 0..(Q - 1)
                   /\ SiteOf(c) = SiteOf(t)
                   /\ DimOf(c) < DimOf(t)
        /\ \A k \in 1..(Len(cz) - 1) : LexLess(CzKey(cz[k]), CzKey(cz[k + 1]))
        /\ \A s \in 0..(num_qubits - 1) :
           \A d1 \in 0..(num_dimensions - 1) : \A d2 \in (d1 + 1)..(num_dimensions - 1) :
               Cardinality({k \in 1..Len(cz) :
                   cz[k].qubits = <<s + d1 * num_qubits, s + d2 * num_qubits>>}) = 1

C3_Witness ==
    /\ returned
    /\ num_qubits = 2
    /\ num_dimensions = 3
    /\ Len(OpsOf("cz")) = 6
    /\ OpsOf("cz")[2].qubits = <<0, 4>>
    /\ OpsOf("cz")[4].qubits = <<1, 3>>

C3_WitnessOneDimension ==
    /\ returned
    /\ num_qubits = 3
    /\ num_dimensions = 1
    /\ OpsOf("cz") = <<>>

\* C4: the circuit holds exactly Q measurements after the measure call,
\* every qubit index in 0..Q-1 is measured exactly once, and qubit k is
\* recorded into classical slot k.
C4_Measurement ==
    (ValidArgs /\ AfterMeasure) =>
        LET m == OpsOf("measure") IN
        /\ Len(m) = Q
        /\ \A k \in 0..(Q - 1) :
               /\ Cardinality({n \in 1..Len(m) : m[n].qubits = <<k>>}) = 1
               /\ \A n \in 1..Len(m) : m[n].qubits = <<k>> => m[n].clbits = <<k>>

C4_Witness ==
    /\ returned
    /\ num_qubits = 4
    /\ num_dimensions = 2
    /\ Len(OpsOf("measure")) = 8
    /\ OpsOf("measure")[8] = Measure(7, 7)

\* C5: at every point of the construction every operand of every operation
\* is a qubit index in 0..Q-1, a Hadamard or a phase rotation has one
\* operand, and a controlled-NOT or a controlled-phase has two operands that
\* differ.
C5_OperandsInRange ==
    ValidArgs =>
        \A k \in 1..Len(circuit) :
            LET op == circuit[k] IN
            /\ \A n \in 1..Len(op.qubits) : op.qubits[n] \in 0..(Q - 1)
            /\ op.gate \in {"h", "rz"} => Len(op.qubits) = 1
            /\ op.gate \in {"cx", "cz"} =>
                   (Len(op.qubits) = 2 /\ op.qubits[1] # op.qubits[2])

C5_Witness ==
    /\ pc = "cz"
    /\ num_qubits = 4
    /\ num_dimensions = 3
    /\ Len(OpsOf("cz")) >= 1
    /\ circuit[Len(circuit)].qubits = <<3, 11>>

\* C6: the index mapping the gate placement uses is a bijection from the
\* pairs (dimension, site) onto 0..Q-1: distinct pairs have distinct
\* indices, every index is the image of a pair, and for num_qubits = 4,
\* num_dimensions = 2 it gives index(0,0)=0, index(0,3)=3, index(1,0)=4,
\* index(1,3)=7.
C6_IndexBijection ==
    ValidArgs =>
        LET Pairs == (0..(num_dimensions - 1)) \X (0..(num_qubits - 1))
            Image(p) == Index(p[1], p[2], num_qubits)
        IN  /\ \A p \in Pairs : \A r \in Pairs : Image(p) = Image(r) => p = r
            /\ {Image(p) : p \in Pairs} = 0..(Q - 1)
            /\ (num_qubits = 4 /\ num_dimensions = 2) =>
                   /\ Image(<<0, 0>>) = 0
                   /\ Image(<<0, 3>>) = 3
                   /\ Image(<<1, 0>>) = 4
                   /\ Image(<<1, 3>>) = 7

C6_Witness ==
    /\ returned
    /\ num_qubits = 4
    /\ num_dimensions = 2
    /\ OpsOf("cx")[6].qubits = <<Index(1, 2, 4), Index(1, 3, 4)>>
    /\ OpsOf("cz")[4].qubits = <<Index(0, 3, 4), Index(1, 3, 4)>>

\* C7: a call with num_qubits = 0 or num_dimensions = 0 fails: it never
\* returns a circuit, and it ends only by raising.
C7_ZeroArgumentFails ==
    (num_qubits = 0 \/ num_dimensions = 0) =>
        /\ ~returned
        /\ circuit = <<>>
        /\ pc \in {"raised", "done"} => raised # "none"

\* ------------------------------------------ properties of the analyzer

\* The sum of the counts, the largest count and the keys of a mapping.
RECURSIVE TotalOf(_)
TotalOf(items) == IF items = <<>> THEN 0 ELSE Head(items)[2] + TotalOf(Tail(items))

LargestOf(items) ==
    CHOOSE c \in {items[k][2] : k \in 1..Len(items)} :
        \A k \in 1..Len(items) : items[k][2] <= c

KeysOf(items) == {items[k][1] : k \in 1..Len(items)}

\* The first key, in the order the mapping presents its items, whose count
\* is the largest.
FirstLargestKey(items) ==
    LET k == CHOOSE n \in 1..Len(items) :
                 /\ items[n][2] = LargestOf(items)
                 /\ \A j \in 1..(n - 1) : items[j][2] # LargestOf(items)
    IN  items[k][1]

AnalyzeEnded == apc \in {"raised", "done"}

\* C8: on an empty mapping analyze_results raises the invalid-argument
\* exception (ValueError) and builds and returns no analysis.
C8_EmptyMappingFails ==
    counts = <<>> /\ apc # "idle" =>
        /\ analysis = <<>>
        /\ apc \notin {"return", "done"}
        /\ AnalyzeEnded => (apc = "raised" /\ aerror = "ValueError")

C8_Witness ==
    /\ counts = <<>>
    /\ apc = "raised"
    /\ aerror = "ValueError"
    /\ analysis = <<>>

ReturnsTotalsAndMode ==
    /\ aerror = "none"
    /\ apc # "raised"
    /\ apc = "done" =>
           /\ Len(analysis) = 1
           /\ analysis[1].total_measurements = TotalOf(counts)
           /\ analysis[1].unique_states = Cardinality(KeysOf(counts))
           /\ analysis[1].most_common_state = FirstLargestKey(counts)

\* C9 as stated: for every non-empty mapping analyze_results returns the
\* sum of the counts, the number of distinct keys and the first key with
\* the largest count.
C9_Original == (counts # <<>> /\ apc # "idle") => ReturnsTotalsAndMode

\* C9, amended: for every non-empty mapping whose counts do not sum to zero
\* analyze_results returns total_measurements = the sum of the counts,
\* unique_states = the number of distinct keys and most_common_state = the
\* first key, in the order the mapping presents its items, whose count is
\* the largest ({"00": 700, "11": 300} gives 1000, 2, "00").
C9_TotalsAndMode ==
    (counts # <<>> /\ TotalOf(counts) # 0 /\ apc # "idle") => ReturnsTotalsAndMode

C9_Witness ==
    /\ counts = <<<<"00", 700>>, <<"11", 300>>>>
    /\ apc = "done"
    /\ analysis[1].total_measurements = 1000
    /\ analysis[1].unique_states = 2
    /\ analysis[1].most_common_state = "00"

C9_WitnessTie ==
    /\ counts = <<<<"11", 2>>, <<"00", 2>>>>
    /\ apc = "done"
    /\ analysis[1].most_common_state = "11"

ReturnsProbability ==
    /\ aerror = "none"
    /\ apc # "raised"
    /\ apc = "done" =>
           LET p == analysis[1].highest_probability IN
           /\ p = <<LargestOf(counts), TotalOf(counts)>>
           /\ p[2] # 0
           /\ 0 < p[1]
           /\ p[1] <= p[2]

\* C10 as stated: for every non-empty mapping with non-negative counts
\* highest_probability is max(count) / total_measurements and lies in
\* (0, 1], the largest count being positive and the total non-zero.
C10_Original == (counts # <<>> /\ apc # "idle") => ReturnsProbability

\* C10, amended: for every non-empty mapping with non-negative counts at
\* least one of which is positive, highest_probability is
\* max(count) / total_measurements and lies in (0, 1]: the largest count is
\* positive and not greater than total_measurements, which is non-zero.
C10_Probability ==
    (counts # <<>> /\ (\E k \in 1..Len(counts) : counts[k][2] > 0) /\ apc # "idle")
        => ReturnsProbability

C10_Witness ==
    /\ counts = <<<<"00", 700>>, <<"11", 300>>>>
    /\ apc = "done"
    /\ analysis[1].highest_probability[1] * 10 = 7 * analysis[1].highest_probability[2]

C10_WitnessZeroCount ==
    /\ counts = <<<<"01", 0>>, <<"10", 3>>>>
    /\ apc = "done"
    /\ analysis[1].highest_probability = <<3, 3>>

====
